---- MODULE Spec2Model ----
(***************************************************************************)
(* Model of the Kubernetes security scanner: the cluster orchestrator      *)
(* (scanner.py scan_cluster), the namespace walker (_scan_namespace), the  *)
(* latest-tag and root-user evaluators, and the CIS evaluators of          *)
(* cis_checker.py.                                                         *)
(*                                                                         *)
(* Conventions.  A Python optional value is a sequence of length 0 (None)  *)
(* or 1 (the value).  A Python object is a record and hasattr(o, f) is     *)
(* f \in DOMAIN o.  An image reference is a sequence of one-character      *)
(* strings; a container name is a sequence of tokens, so that the f-string *)
(* f"init-{name}" is the concatenation <<"init-">> \o name.                *)
(***************************************************************************)
EXTENDS Integers, Sequences, FiniteSets, TLC

VARIABLES
    cluster,                \* the cluster's objects, in listing order
    api,                    \* the outcome of each list call of the cluster API
    pc,                     \* position of the running scan_cluster call
    namespaces,             \* scan_cluster: the listed namespace names
    idx,                    \* scan_cluster: index of the next namespace of the loop
    latest_tag_containers,  \* scan_cluster: accumulated LatestTagContainer records
    root_containers,        \* scan_cluster: accumulated RootContainer records
    log,                    \* the warnings and errors scan_cluster has logged
    responses,              \* what each finished scan_cluster call gave its caller
    image,                  \* _check_latest_tag: the image reference under evaluation
    latest_issue,           \* _check_latest_tag: its result for image
    call,                   \* an evaluator called on its own: its name and arguments
    returned,               \* what that call returned
    _client,                \* KubernetesClientManager: the client held, if any
    _initialized,           \* KubernetesClientManager: its initialized flag
    manager_pc,             \* KubernetesClientManager: where initialize() stands
    manager_log,            \* what the calls of the manager have done, in order
    http                    \* the answers of the /scan endpoint, in order

vars == <<cluster, api, pc, namespaces, idx, latest_tag_containers,
          root_containers, log, responses, image, latest_issue,
          call, returned, _client, _initialized, manager_pc, manager_log,
          http>>

\* The variables of the client manager and of the /scan endpoint.
appVars == <<_client, _initialized, manager_pc, manager_log, http>>

----------------------------------------------------------------------------
(* Bounds of the model *)

MaxNamespaces == 2

MaxScans == 2

MaxImageLen == 5

----------------------------------------------------------------------------
(* Python values *)

None == <<>>

Some(x) == <<x>>

IsNone(o) == o = <<>>

Val(o) == o[1]

HasAttr(o, f) == f \in DOMAIN o

\* Truthiness of an optional object or of a list: None and [] are falsy.
Truthy(o) == o /= <<>>

\* seq with x appended when the optional x is present (if x: seq.append(x)).
AppendIf(seq, o) == IF Truthy(o) THEN Append(seq, Val(o)) ELSE seq

----------------------------------------------------------------------------
(* Python str operations used by _check_latest_tag *)

LatestSuffix == <<":", "l", "a", "t", "e", "s", "t">>

\* s.endswith(suf)
EndsWith(s, suf) ==
    /\ Len(s) >= Len(suf)
    /\ SubSeq(s, Len(s) - Len(suf) + 1, Len(s)) = suf

\* ch in s
StrContains(s, ch) == \E i \in 1..Len(s) : s[i] = ch

\* s.count(ch)
StrCount(s, ch) == Cardinality({i \in 1..Len(s) : s[i] = ch})

\* s.split(ch)[0]: the part of s before its first ch, or all of s
SplitFirst(s, ch) ==
    IF StrContains(s, ch)
    THEN SubSeq(s, 1, (CHOOSE i \in 1..Len(s) :
                          /\ s[i] = ch
                          /\ \A j \in 1..(i - 1) : s[j] /= ch) - 1)
    ELSE s

LatestTagContainer(namespace, pod_name, container_name, img) ==
    [namespace |-> namespace, pod |-> pod_name, container |-> container_name,
     image |-> img]

\* The implicit-latest condition of scanner.py line 174; Python's "and" binds
\* tighter than "or".
ImplicitLatest(img) ==
    \/ ~StrContains(img, ":")
    \/ /\ StrCount(img, ":") = 1
       /\ StrContains(SplitFirst(img, ":"), "/")

_check_latest_tag(namespace, pod_name, container_name, img) ==
    IF ~Truthy(img) THEN None
    ELSE IF EndsWith(img, LatestSuffix)
    THEN Some(LatestTagContainer(namespace, pod_name, container_name, img))
    ELSE IF ImplicitLatest(img)
    THEN Some(LatestTagContainer(namespace, pod_name, container_name,
                                 img \o LatestSuffix))
    ELSE None

----------------------------------------------------------------------------
(* The root-user evaluator *)

RootContainer(namespace, pod_name, container_name, reason, user_id, run_as_non_root) ==
    [namespace |-> namespace, pod |-> pod_name, container |-> container_name,
     reason |-> reason, user_id |-> user_id, run_as_non_root |-> run_as_non_root]

\* getattr(ctx, f, None)
GetAttr(ctx, f) == IF HasAttr(ctx, f) THEN ctx[f] ELSE None

\* hasattr(ctx, f) and ctx.f is not None
IsSet(ctx, f) == HasAttr(ctx, f) /\ ~IsNone(ctx[f])

\* Lines 264-281: whether any user setting exists.  The pod's settings are
\* read only when the container gave none.
has_user_setting(csc, psc) ==
    LET fromContainer ==
            /\ Truthy(csc)
            /\ (IsSet(Val(csc), "run_as_user") \/ IsSet(Val(csc), "run_as_non_root"))
    IN \/ fromContainer
       \/ /\ Truthy(psc)
          /\ (IsSet(Val(psc), "run_as_user") \/ IsSet(Val(psc), "run_as_non_root"))

\* Variant of _check_root_user that consults the pod's runAsUser before the
\* container's.
CheckRootUserPodFirst(namespace, pod_name, container_name, csc, psc) ==
    IF Truthy(psc) /\ IsSet(Val(psc), "run_as_user") /\ Val(Val(psc).run_as_user) = 0
    THEN Some(RootContainer(namespace, pod_name, container_name,
                            "Pod runAsUser=0", Some(0),
                            GetAttr(Val(psc), "run_as_non_root")))
    ELSE IF Truthy(csc) /\ IsSet(Val(csc), "run_as_user") /\ Val(Val(csc).run_as_user) = 0
    THEN Some(RootContainer(namespace, pod_name, container_name,
                            "Container runAsUser=0", Some(0),
                            GetAttr(Val(csc), "run_as_non_root")))
    ELSE None

\* Variant of _check_root_user that lets a container without any security
\* context pass.
CheckRootUserNoContextPasses(namespace, pod_name, container_name, csc, psc) ==
    IF ~Truthy(csc) /\ ~Truthy(psc)
    THEN None
    ELSE IF ~has_user_setting(csc, psc)
    THEN Some(RootContainer(namespace, pod_name, container_name,
                            "Security context exists but no user settings (defaults to root)",
                            None, None))
    ELSE None

_check_root_user(namespace, pod_name, container_name, csc, psc) ==
    IF Truthy(csc) /\ IsSet(Val(csc), "run_as_user")
    THEN IF Val(Val(csc).run_as_user) = 0
         THEN Some(RootContainer(namespace, pod_name, container_name,
                                 "Container runAsUser=0", Some(0),
                                 GetAttr(Val(csc), "run_as_non_root")))
         ELSE None
    ELSE IF /\ Truthy(csc)
            /\ HasAttr(Val(csc), "run_as_non_root")
            /\ Val(csc).run_as_non_root = Some(FALSE)
    THEN Some(RootContainer(namespace, pod_name, container_name,
                            "Container runAsNonRoot=false",
                            GetAttr(Val(csc), "run_as_user"), Some(FALSE)))
    ELSE IF Truthy(psc) /\ IsSet(Val(psc), "run_as_user")
    THEN IF Val(Val(psc).run_as_user) = 0
         THEN Some(RootContainer(namespace, pod_name, container_name,
                                 "Pod runAsUser=0", Some(0),
                                 GetAttr(Val(psc), "run_as_non_root")))
         ELSE None
    ELSE IF /\ Truthy(psc)
            /\ HasAttr(Val(psc), "run_as_non_root")
            /\ Val(psc).run_as_non_root = Some(FALSE)
    THEN Some(RootContainer(namespace, pod_name, container_name,
                            "Pod runAsNonRoot=false",
                            GetAttr(Val(psc), "run_as_user"), Some(FALSE)))
    ELSE IF ~Truthy(csc) /\ ~Truthy(psc)
    THEN Some(RootContainer(namespace, pod_name, container_name,
                            "No security context defined (defaults to root)",
                            None, None))
    ELSE IF ~has_user_setting(csc, psc)
    THEN Some(RootContainer(namespace, pod_name, container_name,
                            "Security context exists but no user settings (defaults to root)",
                            None, None))
    ELSE None

----------------------------------------------------------------------------
(* The CIS evaluators of cis_checker.py *)

CISViolation(namespace, pod_name, container_name, control_id, severity, level, description) ==
    [namespace |-> namespace, pod |-> pod_name, container |-> container_name,
     control_id |-> control_id, severity |-> severity, level |-> level,
     description |-> description]

\* A Python bool-or-None used as a condition: only True is truthy.
PyTrue(o) == o = Some(TRUE)

\* hasattr(spec, 'security_context') and spec.security_context
HasSecurityContext(spec) ==
    HasAttr(spec, "security_context") /\ Truthy(spec.security_context)

\* The container-then-pod lookup shared by the evaluators of lines 209-394:
\* the container's value when its security context has the attribute, and
\* the pod's when that gave None.
Resolved(container_spec, pod_spec, f) ==
    LET fromContainer ==
            IF HasSecurityContext(container_spec)
               /\ HasAttr(Val(container_spec.security_context), f)
            THEN Val(container_spec.security_context)[f]
            ELSE None
    IN IF /\ IsNone(fromContainer)
          /\ HasSecurityContext(pod_spec)
          /\ HasAttr(Val(pod_spec.security_context), f)
       THEN Val(pod_spec.security_context)[f]
       ELSE fromContainer

\* The violations of one pass over pod_spec.volumes from index i on.
RECURSIVE SecretVolumeViolations(_, _, _, _, _)
SecretVolumeViolations(namespace, pod_name, container_name, volumes, i) ==
    IF i > Len(volumes) THEN <<>>
    ELSE (IF HasAttr(volumes[i], "secret") /\ Truthy(volumes[i].secret)
          THEN <<CISViolation(namespace, pod_name, container_name, "5.1.4",
                              "Medium", "L1", <<"secret volume", volumes[i].name>>)>>
          ELSE <<>>)
         \o SecretVolumeViolations(namespace, pod_name, container_name, volumes, i + 1)

\* Variant of _check_secret_mounts that reports the secret volumes of a pod
\* once, however many there are.
SecretMountsOnce(namespace, pod_name, container_name, container_spec, pod_spec) ==
    IF /\ HasAttr(pod_spec, "volumes")
       /\ \E i \in DOMAIN pod_spec.volumes :
              HasAttr(pod_spec.volumes[i], "secret") /\ Truthy(pod_spec.volumes[i].secret)
    THEN <<CISViolation(namespace, pod_name, container_name, "5.1.4", "Medium", "L1",
               <<"secret volume",
                 pod_spec.volumes[CHOOSE i \in DOMAIN pod_spec.volumes :
                     HasAttr(pod_spec.volumes[i], "secret")
                         /\ Truthy(pod_spec.volumes[i].secret)].name>>)>>
    ELSE <<>>

_check_secret_mounts(namespace, pod_name, container_name, container_spec, pod_spec) ==
    IF HasAttr(pod_spec, "volumes") /\ Truthy(pod_spec.volumes)
    THEN SecretVolumeViolations(namespace, pod_name, container_name, pod_spec.volumes, 1)
    ELSE <<>>

\* Variant of _check_privileged_containers that takes a container whose
\* privileged flag is not False for privileged.
PrivilegedUnlessFalse(namespace, pod_name, container_name, container_spec) ==
    IF /\ HasSecurityContext(container_spec)
       /\ HasAttr(Val(container_spec.security_context), "privileged")
       /\ Val(container_spec.security_context).privileged = Some(FALSE)
    THEN <<>>
    ELSE <<CISViolation(namespace, pod_name, container_name, "5.2.1",
                        "Critical", "L1", <<"privileged">>)>>

_check_privileged_containers(namespace, pod_name, container_name, container_spec) ==
    IF /\ HasSecurityContext(container_spec)
       /\ HasAttr(Val(container_spec.security_context), "privileged")
       /\ PyTrue(Val(container_spec.security_context).privileged)
    THEN <<CISViolation(namespace, pod_name, container_name, "5.2.1",
                        "Critical", "L1", <<"privileged">>)>>
    ELSE <<>>

_check_host_pid(namespace, pod_name, container_name, pod_spec) ==
    IF /\ HasSecurityContext(pod_spec)
       /\ HasAttr(Val(pod_spec.security_context), "host_pid")
       /\ PyTrue(Val(pod_spec.security_context).host_pid)
    THEN <<CISViolation(namespace, pod_name, container_name, "5.2.2",
                        "High", "L1", <<"host pid">>)>>
    ELSE <<>>

_check_host_ipc(namespace, pod_name, container_name, pod_spec) ==
    IF /\ HasSecurityContext(pod_spec)
       /\ HasAttr(Val(pod_spec.security_context), "host_ipc")
       /\ PyTrue(Val(pod_spec.security_context).host_ipc)
    THEN <<CISViolation(namespace, pod_name, container_name, "5.2.3",
                        "High", "L1", <<"host ipc">>)>>
    ELSE <<>>

_check_host_network(namespace, pod_name, container_name, pod_spec) ==
    IF HasAttr(pod_spec, "host_network") /\ PyTrue(pod_spec.host_network)
    THEN <<CISViolation(namespace, pod_name, container_name, "5.2.4",
                        "High", "L1", <<"host network">>)>>
    ELSE <<>>

\* Variant of _check_privilege_escalation that reads the pod's value first.
PrivilegeEscalationPodFirst(namespace, pod_name, container_name, container_spec, pod_spec) ==
    LET allow_privilege_escalation ==
            Resolved(pod_spec, container_spec, "allow_privilege_escalation")
    IN IF IsNone(allow_privilege_escalation) \/ PyTrue(allow_privilege_escalation)
       THEN <<CISViolation(namespace, pod_name, container_name, "5.2.5",
                           "High", "L1", <<"privilege escalation">>)>>
       ELSE <<>>

_check_privilege_escalation(namespace, pod_name, container_name, container_spec, pod_spec) ==
    LET allow_privilege_escalation ==
            Resolved(container_spec, pod_spec, "allow_privilege_escalation")
    IN IF IsNone(allow_privilege_escalation) \/ PyTrue(allow_privilege_escalation)
       THEN <<CISViolation(namespace, pod_name, container_name, "5.2.5",
                           "High", "L1", <<"privilege escalation">>)>>
       ELSE <<>>

\* capabilities.add (or .drop) is present and a non-empty list
CapList(capabilities, f) ==
    IF Truthy(capabilities) /\ HasAttr(Val(capabilities), f)
    THEN Val(capabilities)[f]
    ELSE <<>>

InList(x, list) == \E i \in 1..Len(list) : list[i] = x

_check_net_raw_capability(namespace, pod_name, container_name, container_spec, pod_spec) ==
    LET capabilities == Resolved(container_spec, pod_spec, "capabilities")
    IN IF InList("NET_RAW", CapList(capabilities, "add"))
       THEN <<CISViolation(namespace, pod_name, container_name, "5.2.7",
                           "Medium", "L1", <<"NET_RAW">>)>>
       ELSE <<>>

_check_added_capabilities(namespace, pod_name, container_name, container_spec, pod_spec) ==
    LET capabilities == Resolved(container_spec, pod_spec, "capabilities")
    IN IF Truthy(CapList(capabilities, "add"))
       THEN <<CISViolation(namespace, pod_name, container_name, "5.2.8",
                           "Medium", "L1",
                           <<"added capabilities">> \o CapList(capabilities, "add"))>>
       ELSE <<>>

\* Variant of _check_capabilities_not_dropped that is content with any
\* dropped capability.
CapabilitiesAnyDropPasses(namespace, pod_name, container_name, container_spec, pod_spec) ==
    LET capabilities == Resolved(container_spec, pod_spec, "capabilities")
    IN IF ~Truthy(CapList(capabilities, "drop"))
       THEN <<CISViolation(namespace, pod_name, container_name, "5.2.9",
                           "Medium", "L1", <<"no capabilities dropped">>)>>
       ELSE <<>>

_check_capabilities_not_dropped(namespace, pod_name, container_name, container_spec, pod_spec) ==
    LET capabilities == Resolved(container_spec, pod_spec, "capabilities")
    IN IF ~Truthy(CapList(capabilities, "drop"))
       THEN <<CISViolation(namespace, pod_name, container_name, "5.2.9",
                           "Medium", "L1", <<"no capabilities dropped">>)>>
       ELSE IF ~InList("ALL", CapList(capabilities, "drop"))
       THEN <<CISViolation(namespace, pod_name, container_name, "5.2.9",
                           "Low", "L2", <<"ALL not dropped">>)>>
       ELSE <<>>

_check_seccomp_profile(namespace, pod_name, container_name, container_spec, pod_spec) ==
    LET seccomp_profile == Resolved(container_spec, pod_spec, "seccomp_profile")
    IN IF ~Truthy(seccomp_profile)
       THEN <<CISViolation(namespace, pod_name, container_name, "5.7.2",
                           "Medium", "L1", <<"no seccomp profile">>)>>
       ELSE <<>>

_check_security_context(namespace, pod_name, container_name, container_spec, pod_spec) ==
    IF ~HasSecurityContext(container_spec) /\ ~HasSecurityContext(pod_spec)
    THEN <<CISViolation(namespace, pod_name, container_name, "5.7.3",
                        "High", "L1", <<"no security context">>)>>
    ELSE <<>>

_check_default_namespace(namespace, pod_name, container_name) ==
    IF namespace = "default"
    THEN <<CISViolation(namespace, pod_name, container_name, "5.7.4",
                        "Low", "L1", <<"default namespace">>)>>
    ELSE <<>>

check_cis_compliance(namespace, pod_name, container_name, container_spec, pod_spec) ==
    _check_secret_mounts(namespace, pod_name, container_name, container_spec, pod_spec)
    \o _check_privileged_containers(namespace, pod_name, container_name, container_spec)
    \o _check_host_pid(namespace, pod_name, container_name, pod_spec)
    \o _check_host_ipc(namespace, pod_name, container_name, pod_spec)
    \o _check_host_network(namespace, pod_name, container_name, pod_spec)
    \o _check_privilege_escalation(namespace, pod_name, container_name, container_spec, pod_spec)
    \o _check_net_raw_capability(namespace, pod_name, container_name, container_spec, pod_spec)
    \o _check_added_capabilities(namespace, pod_name, container_name, container_spec, pod_spec)
    \o _check_capabilities_not_dropped(namespace, pod_name, container_name, container_spec, pod_spec)
    \o _check_seccomp_profile(namespace, pod_name, container_name, container_spec, pod_spec)
    \o _check_security_context(namespace, pod_name, container_name, container_spec, pod_spec)
    \o _check_default_namespace(namespace, pod_name, container_name)

----------------------------------------------------------------------------
(* The cluster API: list calls and their failures *)

ApiException(status) == [type |-> "ApiException", status |-> status]

\* A failure of the transport (urllib3), which is no ApiException.
ConnectionError == [type |-> "ConnectionError", status |-> ""]

\* pod.spec.containers of a pod whose spec is None
AttributeError == [type |-> "AttributeError", status |-> ""]

Statuses == {"ok", "401", "403", "500", "connection"}

\* What a call gives its caller: a value, or a raised exception.
Return(v) == [exc |-> None, value |-> v]

Raise(e) == [exc |-> Some(e), value |-> None]

Raised(r) == Truthy(r.exc)

\* A list call of the client: the items, or the failure the API answers with.
ListCall(status, items) ==
    IF status = "ok" THEN Return(items)
    ELSE IF status = "connection" THEN Raise(ConnectionError)
    ELSE Raise(ApiException(status))

\* Position of the namespace called name in the cluster.
NsIndex(name) == CHOOSE i \in 1..Len(cluster) : cluster[i].name = name

list_namespace == ListCall(api.list_namespace, cluster)

list_namespaced_pod(namespace) ==
    ListCall(api.namespaced[NsIndex(namespace)].list_namespaced_pod,
             cluster[NsIndex(namespace)].pods)

list_namespaced_service_account(namespace) ==
    ListCall(api.namespaced[NsIndex(namespace)].list_namespaced_service_account,
             cluster[NsIndex(namespace)].service_accounts)

list_namespaced_network_policy(namespace) ==
    ListCall(api.namespaced[NsIndex(namespace)].list_namespaced_network_policy,
             cluster[NsIndex(namespace)].network_policies)

----------------------------------------------------------------------------
(* The per-namespace evaluators of cis_checker.py *)

NetworkPolicyViolation(namespace) ==
    [namespace |-> namespace, control_id |-> "5.3.2", severity |-> "Medium"]

ServiceAccountViolation(namespace, service_account) ==
    [namespace |-> namespace, service_account |-> service_account,
     control_id |-> "5.1.6", severity |-> "Medium"]

\* Variant of SwallowApiException that lets every exception through.
SwallowNothing(r, violations) ==
    IF Raised(r) THEN r ELSE Return(violations)

\* except ApiException: swallowed (logged unless 403); anything else propagates.
SwallowApiException(r, violations) ==
    IF Raised(r) /\ Val(r.exc).type /= "ApiException" THEN r ELSE Return(violations)

\* Variant of check_network_policies that takes a failed lookup for a
\* namespace without policies.
NetworkPoliciesFailedIsNone(namespace) ==
    LET network_policies == list_namespaced_network_policy(namespace)
    IN SwallowApiException(network_policies,
           IF ~Truthy(network_policies.value)
           THEN <<NetworkPolicyViolation(namespace)>>
           ELSE <<>>)

check_network_policies(namespace) ==
    LET network_policies == list_namespaced_network_policy(namespace)
    IN SwallowApiException(network_policies,
           IF ~Raised(network_policies) /\ ~Truthy(network_policies.value)
           THEN <<NetworkPolicyViolation(namespace)>>
           ELSE <<>>)

\* Variant of ServiceAccountViolations that lets an account with an unset
\* automountServiceAccountToken pass.
RECURSIVE ServiceAccountsOnlyTrue(_, _, _)
ServiceAccountsOnlyTrue(namespace, items, i) ==
    IF i > Len(items) THEN <<>>
    ELSE (IF /\ HasAttr(items[i], "automount_service_account_token")
             /\ PyTrue(items[i].automount_service_account_token)
          THEN <<ServiceAccountViolation(namespace, items[i].name)>>
          ELSE <<>>)
         \o ServiceAccountsOnlyTrue(namespace, items, i + 1)

RECURSIVE ServiceAccountViolations(_, _, _)
ServiceAccountViolations(namespace, items, i) ==
    IF i > Len(items) THEN <<>>
    ELSE (IF \/ ~HasAttr(items[i], "automount_service_account_token")
             \/ IsNone(items[i].automount_service_account_token)
             \/ PyTrue(items[i].automount_service_account_token)
          THEN <<ServiceAccountViolation(namespace, items[i].name)>>
          ELSE <<>>)
         \o ServiceAccountViolations(namespace, items, i + 1)

check_service_accounts(namespace) ==
    LET service_accounts == list_namespaced_service_account(namespace)
    IN SwallowApiException(service_accounts,
           IF ~Raised(service_accounts)
           THEN ServiceAccountViolations(namespace, service_accounts.value, 1)
           ELSE <<>>)

----------------------------------------------------------------------------
(* The namespace walker: scanner.py _scan_namespace *)

\* Lines 111-125 and 129-143: one pass over a container list, appending to
\* the two result lists.  prefix is <<>> for regular containers and
\* <<"init-">> for init containers.
RECURSIVE ScanContainers(_, _, _, _, _, _, _)
ScanContainers(namespace, pod_name, containers, i, prefix, psc, acc) ==
    IF i > Len(containers) THEN acc
    ELSE LET container == containers[i]
             latest_issue_ == _check_latest_tag(namespace, pod_name,
                                                prefix \o container.name, container.image)
             root_issue == _check_root_user(namespace, pod_name,
                                            prefix \o container.name,
                                            container.security_context, psc)
         IN ScanContainers(namespace, pod_name, containers, i + 1, prefix, psc,
                [latest_tag_containers |->
                     AppendIf(acc.latest_tag_containers, latest_issue_),
                 root_containers |-> AppendIf(acc.root_containers, root_issue)])

\* Variant of ScanPod that walks the init containers before the regular ones.
ScanPodInitFirst(namespace, pod, acc) ==
    LET spec == Val(pod.spec)
        afterInit ==
            IF Truthy(spec.init_containers)
            THEN ScanContainers(namespace, pod.name, spec.init_containers, 1,
                                <<"init-">>, spec.security_context, acc)
            ELSE acc
    IN IF Truthy(spec.containers)
       THEN ScanContainers(namespace, pod.name, spec.containers, 1, <<>>,
                           spec.security_context, afterInit)
       ELSE afterInit

\* Variant of ScanPod that reports the init containers under their own names.
ScanPodInitUnprefixed(namespace, pod, acc) ==
    LET spec == Val(pod.spec)
        afterRegular ==
            IF Truthy(spec.containers)
            THEN ScanContainers(namespace, pod.name, spec.containers, 1, <<>>,
                                spec.security_context, acc)
            ELSE acc
    IN IF Truthy(spec.init_containers)
       THEN ScanContainers(namespace, pod.name, spec.init_containers, 1, <<>>,
                           spec.security_context, afterRegular)
       ELSE afterRegular

\* Lines 106-143 for one pod whose spec is present: regular containers, then
\* init containers.
ScanPod(namespace, pod, acc) ==
    LET spec == Val(pod.spec)
        afterRegular ==
            IF Truthy(spec.containers)
            THEN ScanContainers(namespace, pod.name, spec.containers, 1, <<>>,
                                spec.security_context, acc)
            ELSE acc
    IN IF Truthy(spec.init_containers)
       THEN ScanContainers(namespace, pod.name, spec.init_containers, 1, <<"init-">>,
                           spec.security_context, afterRegular)
       ELSE afterRegular

\* The loop of line 106 from pod i on.  The result is the function's exit:
\* exc is the exception it raised, if any, and the two lists are its local
\* result lists at that moment.
RECURSIVE ScanPods(_, _, _, _)
ScanPods(namespace, pods, i, acc) ==
    IF i > Len(pods)
    THEN [exc |-> None, latest_tag_containers |-> acc.latest_tag_containers,
          root_containers |-> acc.root_containers]
    ELSE IF IsNone(pods[i].spec)
    THEN [exc |-> Some(AttributeError),
          latest_tag_containers |-> acc.latest_tag_containers,
          root_containers |-> acc.root_containers]
    ELSE ScanPods(namespace, pods, i + 1, ScanPod(namespace, pods[i], acc))

_scan_namespace(namespace) ==
    LET pods_response == list_namespaced_pod(namespace)
        empty == [latest_tag_containers |-> <<>>, root_containers |-> <<>>]
    IN IF Raised(pods_response)
       THEN [exc |-> pods_response.exc, latest_tag_containers |-> <<>>,
             root_containers |-> <<>>]
       ELSE ScanPods(namespace, pods_response.value, 1, empty)

----------------------------------------------------------------------------
(* The cluster orchestrator: scanner.py scan_cluster *)

ScanResponse(latest, root, summary) ==
    [latestTagContainers |-> latest, rootContainers |-> root,
     cisViolations |-> <<>>, networkPolicyViolations |-> <<>>,
     serviceAccountViolations |-> <<>>, summary |-> summary]

\* Variant of Summary whose total leaves the root-user issues out.
SummaryLatestOnly(names, latest, root) ==
    [namespacesScanned |-> Len(names), latestTagIssues |-> Len(latest),
     rootUserIssues |-> Len(root), totalIssues |-> Len(latest)]

Summary(names, latest, root) ==
    [namespacesScanned |-> Len(names), latestTagIssues |-> Len(latest),
     rootUserIssues |-> Len(root), totalIssues |-> Len(latest) + Len(root)]

\* Variant of _get_all_namespaces that answers a failed listing with no
\* namespaces instead of raising.
GetAllNamespacesSwallows ==
    IF Raised(list_namespace) THEN Return(<<>>)
    ELSE Return([i \in 1..Len(list_namespace.value) |-> list_namespace.value[i].name])

\* _get_all_namespaces: the names of the listed namespaces, or the failure.
_get_all_namespaces ==
    IF Raised(list_namespace) THEN list_namespace
    ELSE Return([i \in 1..Len(list_namespace.value) |-> list_namespace.value[i].name])

\* The frame of a scan_cluster call that is not running.
NoScanFrame ==
    /\ namespaces = <<>>
    /\ idx = 1
    /\ latest_tag_containers = <<>>
    /\ root_containers = <<>>

\* Variant of ScanClusterList that keeps the result lists of the previous
\* call (lists held by the scanner object instead of the call).
ScanClusterListKeepsLists ==
    /\ pc = "idle"
    /\ Len(responses) < MaxScans
    /\ ~Raised(_get_all_namespaces)
    /\ pc' = "loop"
    /\ namespaces' = _get_all_namespaces.value
    /\ idx' = 1
    /\ UNCHANGED <<cluster, api, latest_tag_containers, root_containers, log,
                   responses, image, latest_issue,
                   call, returned, appVars>>

\* Lines 31-39: a call starts with fresh result lists and the namespace list
\* is obtained.
ScanClusterList ==
    /\ pc = "idle"
    /\ Len(responses) < MaxScans
    /\ ~Raised(_get_all_namespaces)
    /\ pc' = "loop"
    /\ namespaces' = _get_all_namespaces.value
    /\ idx' = 1
    /\ latest_tag_containers' = <<>>
    /\ root_containers' = <<>>
    /\ UNCHANGED <<cluster, api, log, responses, image, latest_issue,
                   call, returned, appVars>>

\* Lines 36-38 and 71-73: listing the namespaces fails and the call raises.
ScanClusterListFails ==
    /\ pc = "idle"
    /\ Len(responses) < MaxScans
    /\ Raised(_get_all_namespaces)
    /\ latest_tag_containers' = <<>>
    /\ root_containers' = <<>>
    /\ responses' = Append(responses, Raise(Val(_get_all_namespaces.exc)))
    /\ log' = Append(log, [level |-> "error", namespace |-> ""])
    /\ UNCHANGED <<cluster, api, pc, namespaces, idx, image, latest_issue,
                   call, returned, appVars>>

\* What the handlers of lines 47-53 log for an exception of the walk.
NamespaceLogEntry(namespace, e) ==
    [level |-> IF e.type = "ApiException" /\ e.status = "403"
               THEN "warning" ELSE "error",
     namespace |-> namespace]

\* Variant of ScanClusterNamespace without the handlers of lines 47-53 for
\* failures other than permission-denied: such a failure ends the call.
ScanClusterNamespaceAborts ==
    /\ pc = "loop"
    /\ idx <= Len(namespaces)
    /\ LET namespace == namespaces[idx]
           r == _scan_namespace(namespace)
       IN IF Raised(r) /\ Val(r.exc) /= ApiException("403")
          THEN /\ responses' = Append(responses, Raise(Val(r.exc)))
               /\ pc' = "idle"
               /\ UNCHANGED <<latest_tag_containers, root_containers, log, idx>>
          ELSE /\ IF Raised(r)
                  THEN /\ log' = Append(log, NamespaceLogEntry(namespace, Val(r.exc)))
                       /\ UNCHANGED <<latest_tag_containers, root_containers>>
                  ELSE /\ latest_tag_containers' =
                              latest_tag_containers \o r.latest_tag_containers
                       /\ root_containers' = root_containers \o r.root_containers
                       /\ UNCHANGED log
               /\ idx' = idx + 1
               /\ UNCHANGED <<pc, responses>>
    /\ UNCHANGED <<cluster, api, namespaces, image, latest_issue,
                   call, returned, appVars>>

\* Variant of ScanClusterNamespace that deletes the pods it has walked.
ScanClusterNamespaceDeletesPods ==
    /\ pc = "loop"
    /\ idx <= Len(namespaces)
    /\ LET namespace == namespaces[idx]
           r == _scan_namespace(namespace)
       IN /\ IF Raised(r)
             THEN /\ log' = Append(log, NamespaceLogEntry(namespace, Val(r.exc)))
                  /\ UNCHANGED <<latest_tag_containers, root_containers>>
             ELSE /\ latest_tag_containers' =
                         latest_tag_containers \o r.latest_tag_containers
                  /\ root_containers' = root_containers \o r.root_containers
                  /\ UNCHANGED log
          /\ cluster' = [cluster EXCEPT ![NsIndex(namespace)].pods = <<>>]
    /\ idx' = idx + 1
    /\ UNCHANGED <<api, pc, namespaces, responses, image, latest_issue,
                   call, returned, appVars>>

\* Lines 42-53: one iteration of the loop over the namespaces.
ScanClusterNamespace ==
    /\ pc = "loop"
    /\ idx <= Len(namespaces)
    /\ LET namespace == namespaces[idx]
           r == _scan_namespace(namespace)
       IN IF Raised(r)
          THEN /\ log' = Append(log, NamespaceLogEntry(namespace, Val(r.exc)))
               /\ UNCHANGED <<latest_tag_containers, root_containers>>
          ELSE /\ latest_tag_containers' =
                      latest_tag_containers \o r.latest_tag_containers
               /\ root_containers' = root_containers \o r.root_containers
               /\ UNCHANGED log
    /\ idx' = idx + 1
    /\ UNCHANGED <<cluster, api, pc, namespaces, responses, image, latest_issue,
                   call, returned, appVars>>

\* Lines 56-69: the summary is computed and the report returned.  The
\* variables of the finished call keep their last values; no later call
\* reads them before assigning them (lines 33-38).
ScanClusterReturn ==
    /\ pc = "loop"
    /\ idx > Len(namespaces)
    /\ responses' = Append(responses,
           Return(ScanResponse(latest_tag_containers, root_containers,
                      Summary(namespaces, latest_tag_containers, root_containers))))
    /\ pc' = "idle"
    /\ UNCHANGED <<cluster, api, namespaces, idx, latest_tag_containers,
                   root_containers, log, image, latest_issue,
                   call, returned, appVars>>

----------------------------------------------------------------------------
(* The clusters the scans run against *)

\* A V1SecurityContext: every attribute exists, unset ones are None.
SecurityContext(run_as_user, run_as_non_root, privileged, allow_privilege_escalation, capabilities, seccomp_profile) ==
    [run_as_user |-> run_as_user, run_as_non_root |-> run_as_non_root,
     privileged |-> privileged,
     allow_privilege_escalation |-> allow_privilege_escalation,
     capabilities |-> capabilities, seccomp_profile |-> seccomp_profile]

\* A V1PodSecurityContext: it has no privileged, allow_privilege_escalation
\* or capabilities attribute.
PodSecurityContext(run_as_user, run_as_non_root, seccomp_profile) ==
    [run_as_user |-> run_as_user, run_as_non_root |-> run_as_non_root,
     seccomp_profile |-> seccomp_profile]

Container(name, img, security_context) ==
    [name |-> name, image |-> img, security_context |-> security_context]

ImgBare == <<"n">>

ImgTagged == <<"n", ":", "1">>

ImgLatest == <<"n">> \o LatestSuffix

\* No security context, untagged image: flagged by both evaluators.
ContainerPlain(name) == Container(name, ImgBare, None)

\* Hardened: explicit tag, non-root user, everything dropped.
ContainerHardened(name) ==
    Container(name, ImgTagged,
        Some(SecurityContext(Some(1000), Some(TRUE), Some(FALSE), Some(FALSE),
                 Some([add |-> <<>>, drop |-> <<"ALL">>]), Some("RuntimeDefault"))))

\* Privileged root container on :latest.
ContainerRoot(name) ==
    Container(name, ImgLatest,
        Some(SecurityContext(Some(0), None, Some(TRUE), None,
                 Some([add |-> <<"NET_RAW">>, drop |-> <<>>]), None)))

\* A security context that says nothing about the user, tagged image.
ContainerNoUser(name) ==
    Container(name, ImgTagged,
        Some(SecurityContext(None, None, None, Some(TRUE), None, None)))

PodSpec(containers, init_containers, security_context, host_network, volumes) ==
    [containers |-> containers, init_containers |-> init_containers,
     security_context |-> security_context, host_network |-> host_network,
     volumes |-> volumes]

\* Regular and init containers, no pod security context, a secret volume.
PodSpecMixed ==
    PodSpec(<<ContainerPlain(<<"c1">>), ContainerHardened(<<"c2">>)>>,
            <<ContainerRoot(<<"c1">>)>>, None, None,
            <<[name |-> "v1", secret |-> Some("s1")]>>)

\* A pod security context with runAsNonRoot false, on the host network.
PodSpecHostNet ==
    PodSpec(<<ContainerRoot(<<"c1">>), ContainerNoUser(<<"c2">>)>>,
            <<ContainerPlain(<<"c3">>), ContainerHardened(<<"c4">>)>>,
            Some(PodSecurityContext(None, Some(FALSE), None)), Some(TRUE), <<>>)

\* The spec of the pod listed at position i, when it has one.
PodSpecAt(i) == IF i % 2 = 1 THEN PodSpecMixed ELSE PodSpecHostNet

\* A pod as listed: its name, and its spec (None for a pod object without one).
Pod(name, spec) == [name |-> name, spec |-> spec]

PodNames == <<"p1", "p2", "p3">>

MaxPods == 2

\* The pod lists of a namespace: up to MaxPods pods, named by position.
PodLists ==
    UNION { { [i \in 1..n |-> Pod(PodNames[i],
                                  IF present[i] THEN Some(PodSpecAt(i)) ELSE None)] :
                present \in [1..n -> BOOLEAN] } :
            n \in 0..MaxPods }

ServiceAccount(name, automount_service_account_token) ==
    [name |-> name,
     automount_service_account_token |-> automount_service_account_token]

AllOk ==
    [list_namespaced_pod |-> "ok", list_namespaced_service_account |-> "ok",
     list_namespaced_network_policy |-> "ok"]

\* What a namespace holds and how its list calls answer.
NamespaceVariants ==
    { [pods |-> pods,
       service_accounts |-> <<ServiceAccount("default", None),
                              ServiceAccount("builder", Some(FALSE))>>,
       network_policies |-> <<>>,
       statuses |-> AllOk] : pods \in PodLists }
    \cup
    { [pods |-> <<Pod("p1", Some(PodSpecAt(1)))>>,
       service_accounts |-> <<ServiceAccount("default", Some(TRUE))>>,
       network_policies |-> <<"deny-all">>,
       statuses |-> [AllOk EXCEPT !.list_namespaced_pod = st,
                                  !.list_namespaced_service_account = st]] :
        st \in {"403", "500", "connection"} }

NamespaceNames == <<"default", "kube-system", "prod", "staging">>

----------------------------------------------------------------------------
(* Initial states and specification of the scans *)

TagIdle ==
    /\ image = <<>>
    /\ latest_issue = None

EvalIdle ==
    /\ call = None
    /\ returned = None

\* KubernetesClientManager.__init__, and no request answered.
AppIdle ==
    /\ _client = None
    /\ _initialized = FALSE
    /\ manager_pc = "idle"
    /\ manager_log = <<>>
    /\ http = <<>>

Init ==
    /\ \E n \in 0..MaxNamespaces : \E vs \in [1..n -> NamespaceVariants] :
          /\ cluster = [i \in 1..n |->
                           [name |-> NamespaceNames[i], pods |-> vs[i].pods,
                            service_accounts |-> vs[i].service_accounts,
                            network_policies |-> vs[i].network_policies]]
          /\ \E st \in Statuses :
                /\ api = [list_namespace |-> st,
                          namespaced |-> [i \in 1..n |-> vs[i].statuses]]
    /\ pc = "idle"
    /\ NoScanFrame
    /\ log = <<>>
    /\ responses = <<>>
    /\ TagIdle
    /\ EvalIdle
    /\ AppIdle

Next ==
    \/ ScanClusterList
    \/ ScanClusterListFails
    \/ ScanClusterNamespace
    \/ ScanClusterReturn

Spec == Init /\ [][Next]_vars

----------------------------------------------------------------------------
(* The latest-tag evaluator on its own: every image reference over a small *)
(* alphabet, with and without a trailing ":latest".                        *)

ImageAlphabet == {"n", ":", "/"}

Images ==
    UNION { { stem \o tail : stem \in [1..n -> ImageAlphabet],
                             tail \in {<<>>, LatestSuffix} } :
            n \in 0..MaxImageLen }

InitTag ==
    /\ image \in Images
    /\ latest_issue = None
    /\ pc = "check"
    /\ cluster = <<>>
    /\ api = [list_namespace |-> "ok", namespaced |-> <<>>]
    /\ NoScanFrame
    /\ log = <<>>
    /\ responses = <<>>
    /\ EvalIdle
    /\ AppIdle

\* One call of _check_latest_tag on image.
CheckLatestTag ==
    /\ pc = "check"
    /\ latest_issue' = _check_latest_tag("default", "p1", <<"c1">>, image)
    /\ pc' = "checked"
    /\ UNCHANGED <<cluster, api, namespaces, idx, latest_tag_containers,
                   root_containers, log, responses, image, call,
                   returned, appVars>>

NextTag == CheckLatestTag

SpecTag == InitTag /\ [][NextTag]_vars

----------------------------------------------------------------------------
(* The evaluators of one container on their own: each is called once on a  *)
(* container-level and a pod-level security context.  A context is None,   *)
(* or an object whose attribute is missing, None or set.                   *)

\* An object without any of the attributes the evaluators look up.
NoAttributes == [f \in {} |-> None]

RunAsUserValues == {None, Some(0), Some(1000)}

BoolValues == {None, Some(TRUE), Some(FALSE)}

\* V1Capabilities objects: add and drop lists, drop possibly missing.
CapabilitiesValues ==
    LET adds == {<<>>, <<"NET_RAW">>}
        drops == {<<>>, <<"ALL">>, <<"NET_RAW">>, <<"NET_RAW", "ALL">>}
    IN {None} \cup {Some(c) : c \in [add : adds, drop : drops] \cup [add : adds]}

\* The security contexts _check_root_user is called on.
UserContexts ==
    {None} \cup
    {Some(o) : o \in [run_as_user : RunAsUserValues, run_as_non_root : BoolValues]
                     \cup [run_as_user : RunAsUserValues]
                     \cup [run_as_non_root : BoolValues]
                     \cup {NoAttributes}}

\* The security contexts an evaluator of the single attribute f is called on.
AttrContexts(f, values) ==
    {None} \cup {Some(o) : o \in {NoAttributes} \cup {[g \in {f} |-> v] : v \in values}}

MaxVolumes == 2

VolumeNames == <<"v1", "v2", "v3">>

\* The volume lists of a pod spec: up to MaxVolumes volumes, each without a
\* secret attribute, with secret None, or backed by a secret.
VolumeLists ==
    UNION { { [i \in 1..n |-> IF kind[i] = "plain" THEN [name |-> VolumeNames[i]]
                              ELSE IF kind[i] = "unset"
                              THEN [name |-> VolumeNames[i], secret |-> None]
                              ELSE [name |-> VolumeNames[i], secret |-> Some("s1")]] :
                kind \in [1..n -> {"plain", "unset", "secret"}] } :
            n \in 0..MaxVolumes }

\* The container security contexts check_cis_compliance is called on.
CisContainerContexts ==
    {None, ContainerHardened(<<"c1">>).security_context,
     ContainerRoot(<<"c1">>).security_context,
     ContainerNoUser(<<"c1">>).security_context}

\* The pod security contexts check_cis_compliance is called on.
CisPodContexts ==
    {None, Some(PodSecurityContext(None, Some(FALSE), None)),
     Some([host_pid |-> Some(TRUE), host_ipc |-> Some(TRUE),
           seccomp_profile |-> Some("RuntimeDefault")])}

\* The calls: the evaluator and the two security contexts it is given.
Calls ==
    [fn : {"_check_root_user"}, csc : UserContexts, psc : UserContexts]
    \cup [fn : {"_check_privileged_containers"},
          csc : AttrContexts("privileged", BoolValues),
          psc : AttrContexts("privileged", BoolValues)]
    \cup [fn : {"_check_privilege_escalation"},
          csc : AttrContexts("allow_privilege_escalation", BoolValues),
          psc : AttrContexts("allow_privilege_escalation", BoolValues)]
    \cup [fn : {"_check_capabilities_not_dropped"},
          csc : AttrContexts("capabilities", CapabilitiesValues),
          psc : AttrContexts("capabilities", CapabilitiesValues)]
    \cup [fn : {"_check_secret_mounts", "check_cis_compliance"},
          namespace : {"default", "prod"},
          csc : CisContainerContexts, psc : CisPodContexts,
          host_network : {None, Some(TRUE)}, volumes : VolumeLists]

\* The container and pod specs that carry the contexts of the call.
CallContainerSpec == Container(<<"c1">>, ImgTagged, Val(call).csc)

CallPodSpec == PodSpec(<<CallContainerSpec>>, <<>>, Val(call).psc, None, <<>>)

\* The pod spec of a call that also gives the pod's volumes.
CallPodSpecVolumes ==
    PodSpec(<<CallContainerSpec>>, <<>>, Val(call).psc, Val(call).host_network,
            Val(call).volumes)

InitEval ==
    /\ \E c \in Calls : call = Some(c)
    /\ returned = None
    /\ pc = "call"
    /\ cluster = <<>>
    /\ api = [list_namespace |-> "ok", namespaced |-> <<>>]
    /\ NoScanFrame
    /\ log = <<>>
    /\ responses = <<>>
    /\ TagIdle
    /\ AppIdle

\* The frame of a call of evaluator fn: it runs once and touches nothing of
\* the scans.
CallOf(fn) ==
    /\ pc = "call"
    /\ Val(call).fn = fn
    /\ pc' = "returned"
    /\ UNCHANGED <<cluster, api, namespaces, idx, latest_tag_containers,
                   root_containers, log, responses, image, latest_issue, call,
                   appVars>>

CheckRootUser ==
    /\ CallOf("_check_root_user")
    /\ returned' = _check_root_user("default", "p1", <<"c1">>,
                                    Val(call).csc, Val(call).psc)

CheckPrivilegedContainers ==
    /\ CallOf("_check_privileged_containers")
    /\ returned' = _check_privileged_containers("default", "p1", <<"c1">>,
                                                CallContainerSpec)

CheckPrivilegeEscalation ==
    /\ CallOf("_check_privilege_escalation")
    /\ returned' = _check_privilege_escalation("default", "p1", <<"c1">>,
                                               CallContainerSpec, CallPodSpec)

CheckCapabilitiesNotDropped ==
    /\ CallOf("_check_capabilities_not_dropped")
    /\ returned' = _check_capabilities_not_dropped("default", "p1", <<"c1">>,
                                                   CallContainerSpec, CallPodSpec)

CheckSecretMounts ==
    /\ CallOf("_check_secret_mounts")
    /\ returned' = _check_secret_mounts(Val(call).namespace, "p1", <<"c1">>,
                                        CallContainerSpec, CallPodSpecVolumes)

CheckCisCompliance ==
    /\ CallOf("check_cis_compliance")
    /\ returned' = check_cis_compliance(Val(call).namespace, "p1", <<"c1">>,
                                        CallContainerSpec, CallPodSpecVolumes)

NextEval ==
    \/ CheckRootUser
    \/ CheckPrivilegedContainers
    \/ CheckPrivilegeEscalation
    \/ CheckCapabilitiesNotDropped
    \/ CheckSecretMounts
    \/ CheckCisCompliance

SpecEval == InitEval /\ [][NextEval]_vars

----------------------------------------------------------------------------
(* Scans of one pod whose regular and init containers carry any names of a *)
(* small set, each name at most once in the pod.  "init-c1" is a container *)
(* name like any other.                                                    *)

MaxContainers == 2

ContainerNames == {<<"c1">>, <<"c2">>, <<"init-", "c1">>}

\* The container lists of up to MaxContainers containers with distinct
\* names, each one flagged by both evaluators or by none.
ContainerLists ==
    UNION { { [i \in 1..n |-> IF flagged[i] THEN ContainerPlain(names[i])
                                            ELSE ContainerHardened(names[i])] :
                names \in {f \in [1..n -> ContainerNames] :
                              \A i, j \in 1..n : f[i] = f[j] => i = j},
                flagged \in [1..n -> BOOLEAN] } :
            n \in 0..MaxContainers }

\* The pod specs whose container names are unique among the regular and the
\* init containers.
WalkPodSpecs ==
    UNION { { PodSpec(containers, init_containers, None, None, <<>>) :
                init_containers \in
                    {l \in ContainerLists :
                        \A i \in DOMAIN l : \A j \in DOMAIN containers :
                            l[i].name /= containers[j].name} } :
            containers \in ContainerLists }

InitWalk ==
    /\ \E spec \in WalkPodSpecs :
          cluster = <<[name |-> "default", pods |-> <<Pod("p1", Some(spec))>>,
                       service_accounts |-> <<>>, network_policies |-> <<>>]>>
    /\ \E st \in {"ok", "500"} :
          api = [list_namespace |-> st, namespaced |-> <<AllOk>>]
    /\ pc = "idle"
    /\ NoScanFrame
    /\ log = <<>>
    /\ responses = <<>>
    /\ TagIdle
    /\ EvalIdle
    /\ AppIdle

SpecWalk == InitWalk /\ [][Next]_vars

----------------------------------------------------------------------------
(* The operations on one namespace on their own: each is called once on a  *)
(* namespace whose list call answers in any of the ways of Statuses.       *)

MaxAccounts == 2

ServiceAccountNames == <<"default", "builder", "deployer">>

\* The service accounts of a namespace: up to MaxAccounts accounts, each
\* with automount_service_account_token missing, None, True or False.
ServiceAccountLists ==
    LET Account(name, automount) ==
            CASE automount = "missing" -> [name |-> name]
              [] automount = "none" -> ServiceAccount(name, None)
              [] automount = "true" -> ServiceAccount(name, Some(TRUE))
              [] automount = "false" -> ServiceAccount(name, Some(FALSE))
    IN UNION { { [i \in 1..n |-> Account(ServiceAccountNames[i], automount[i])] :
                   automount \in [1..n -> {"missing", "none", "true", "false"}] } :
               n \in 0..MaxAccounts }

NetworkPolicyLists == {<<>>, <<"deny-all">>, <<"deny-all", "allow-dns">>}

\* A namespace, what it holds, how its list calls answer, and the operation
\* called on it.
NamespaceCalls ==
    [fn : {"check_service_accounts"}, pods : {<<>>},
     service_accounts : ServiceAccountLists, network_policies : {<<>>},
     statuses : {[AllOk EXCEPT !.list_namespaced_service_account = st] :
                    st \in Statuses}]
    \cup [fn : {"check_network_policies"}, pods : {<<>>},
          service_accounts : {<<>>}, network_policies : NetworkPolicyLists,
          statuses : {[AllOk EXCEPT !.list_namespaced_network_policy = st] :
                         st \in Statuses}]
    \cup [fn : {"_scan_namespace"}, pods : PodLists,
          service_accounts : {<<>>}, network_policies : {<<>>},
          statuses : {[AllOk EXCEPT !.list_namespaced_pod = st] : st \in Statuses}]

InitNamespace ==
    /\ \E c \in NamespaceCalls : \E name \in {"default", "prod"} :
          /\ cluster = <<[name |-> name, pods |-> c.pods,
                           service_accounts |-> c.service_accounts,
                           network_policies |-> c.network_policies]>>
          /\ api = [list_namespace |-> "ok", namespaced |-> <<c.statuses>>]
          /\ call = Some([fn |-> c.fn, namespace |-> name])
    /\ returned = None
    /\ pc = "call"
    /\ NoScanFrame
    /\ log = <<>>
    /\ responses = <<>>
    /\ TagIdle
    /\ AppIdle

CheckServiceAccounts ==
    /\ CallOf("check_service_accounts")
    /\ returned' = check_service_accounts(Val(call).namespace)

CheckNetworkPolicies ==
    /\ CallOf("check_network_policies")
    /\ returned' = check_network_policies(Val(call).namespace)

ScanNamespace ==
    /\ CallOf("_scan_namespace")
    /\ returned' = _scan_namespace(Val(call).namespace)

NextNamespace ==
    \/ CheckServiceAccounts
    \/ CheckNetworkPolicies
    \/ ScanNamespace

SpecNamespace == InitNamespace /\ [][NextNamespace]_vars

----------------------------------------------------------------------------
(* The client manager: k8s_client.py KubernetesClientManager.  A call of   *)
(* initialize() is two steps, before and after its await of the            *)
(* connectivity test; calls of the manager do not overlap.                 *)

MaxOps == 4

\* How many client objects initialize() has created so far.
ClientsCreated ==
    Cardinality({i \in DOMAIN manager_log : manager_log[i] = "client_created"})

\* Lines 91-93.
is_initialized == _initialized /\ ~IsNone(_client)

\* Lines 95-99.
get_client ==
    IF ~is_initialized THEN Raise([type |-> "Exception", status |-> ""])
    ELSE Return(Val(_client))

\* Lines 28-55: the configuration is loaded (in-cluster, else kubeconfig),
\* the client is created and the connectivity test is started; when no
\* configuration loads, the handler of lines 61-64 clears the flag and the
\* call raises.  before, client and initialized are the log and the fields
\* when the call starts.
InitializeFrom(before, client, initialized) ==
    \E config \in {"incluster", "kubeconfig", "none"} :
        IF config = "none"
        THEN /\ _initialized' = FALSE
             /\ _client' = client
             /\ manager_pc' = "idle"
             /\ manager_log' = Append(before, "config_failed")
        ELSE /\ _client' = Some(ClientsCreated + 1)
             /\ _initialized' = initialized
             /\ manager_pc' = "testing"
             /\ manager_log' = Append(before, "client_created")

\* initialize() is called (by startup_event, whose handler swallows what it
\* raises, or by anyone else) and runs up to its await.
InitializeStart ==
    /\ manager_pc = "idle"
    /\ Len(manager_log) < MaxOps
    /\ InitializeFrom(manager_log, _client, _initialized)
    /\ UNCHANGED <<cluster, api, pc, namespaces, idx, latest_tag_containers,
                   root_containers, log, responses, image, latest_issue, call,
                   returned, http>>

\* Variant of InitializeFinish that sets the flag whatever the test says.
InitializeFinishIgnoresTest ==
    /\ manager_pc = "testing"
    /\ \E st \in Statuses :
          /\ _initialized' = TRUE
          /\ manager_log' = Append(manager_log,
                                   IF st = "ok" THEN "test_passed" ELSE "test_failed")
    /\ manager_pc' = "idle"
    /\ UNCHANGED <<cluster, api, pc, namespaces, idx, latest_tag_containers,
                   root_containers, log, responses, image, latest_issue, call,
                   returned, _client, http>>

\* Lines 55-64 with test_connectivity (66-89): the test returns and the flag
\* is set, or it raises (401, 403, another API error, a transport error) and
\* the flag is cleared.
InitializeFinish ==
    /\ manager_pc = "testing"
    /\ \E st \in Statuses :
          IF st = "ok"
          THEN /\ _initialized' = TRUE
               /\ manager_log' = Append(manager_log, "test_passed")
          ELSE /\ _initialized' = FALSE
               /\ manager_log' = Append(manager_log, "test_failed")
    /\ manager_pc' = "idle"
    /\ UNCHANGED <<cluster, api, pc, namespaces, idx, latest_tag_containers,
                   root_containers, log, responses, image, latest_issue, call,
                   returned, _client, http>>

\* Lines 101-113: close() drops the client it holds and clears the flag.
Close ==
    /\ manager_pc = "idle"
    /\ Len(manager_log) < MaxOps
    /\ IF Truthy(_client)
       THEN _client' = None /\ _initialized' = FALSE
       ELSE UNCHANGED <<_client, _initialized>>
    /\ manager_log' = Append(manager_log, "closed")
    /\ UNCHANGED <<cluster, api, pc, namespaces, idx, latest_tag_containers,
                   root_containers, log, responses, image, latest_issue, call,
                   returned, manager_pc, http>>

\* Lines 115-120: reinitialize() is close() followed by initialize(), here
\* up to the await of initialize().  A close() that holds no client leaves
\* the fields as they are.
Reinitialize ==
    /\ manager_pc = "idle"
    /\ Len(manager_log) < MaxOps
    /\ IF Truthy(_client)
       THEN InitializeFrom(Append(manager_log, "closed"), None, FALSE)
       ELSE InitializeFrom(Append(manager_log, "closed"), _client, _initialized)
    /\ UNCHANGED <<cluster, api, pc, namespaces, idx, latest_tag_containers,
                   root_containers, log, responses, image, latest_issue, call,
                   returned, http>>

----------------------------------------------------------------------------
(* The /scan endpoint: main.py scan_cluster.  The handler is one step: the *)
(* scan it awaits reads the cluster and touches nothing of the manager,    *)
(* and initialize never suspends, so no request is served inside it.       *)

MaxRequests == 2

\* The substrings the handler of lines 208-231 looks for in str(e).lower().
Keywords == {"permission denied", "forbidden", "unauthorized", "connection", "timeout"}

\* Line 187: HTTPException(status_code=503, detail=...)
NotInitialized == [type |-> "HTTPException", status |-> "503"]

\* The keywords found in str(e).lower().  An ApiException prints its status
\* and reason phrase ("Unauthorized", "Forbidden", "Internal Server
\* Error"), then the headers and body the server sent; a transport error
\* prints the connection pool and its cause; api.text holds the keywords of
\* those parts the cluster decides.  An HTTPException prints nothing, or
\* its status and detail, "503: Kubernetes client not initialized. Check
\* cluster connectivity.", which holds no keyword.
Message(e) ==
    IF e.type = "HTTPException" THEN {}
    ELSE api.text \cup
         (CASE e.type = "ApiException" /\ e.status = "401" -> {"unauthorized"}
            [] e.type = "ApiException" /\ e.status = "403" -> {"forbidden"}
            [] e.type = "ConnectionError" -> {"connection"}
            [] OTHER -> {})

\* Lines 42-53 from namespace i on: the lists and the log of the loop.
RECURSIVE ScanClusterLoop(_, _, _)
ScanClusterLoop(names, i, acc) ==
    IF i > Len(names) THEN acc
    ELSE LET r == _scan_namespace(names[i])
         IN ScanClusterLoop(names, i + 1,
                IF Raised(r)
                THEN [acc EXCEPT !.log = Append(@, NamespaceLogEntry(names[i], Val(r.exc)))]
                ELSE [acc EXCEPT !.latest_tag_containers = @ \o r.latest_tag_containers,
                                 !.root_containers = @ \o r.root_containers])

\* scanner.py lines 27-73 as one call: what it gives its caller and what it
\* logs.
scan_cluster ==
    IF Raised(_get_all_namespaces)
    THEN [response |-> Raise(Val(_get_all_namespaces.exc)),
          log |-> <<[level |-> "error", namespace |-> ""]>>]
    ELSE LET names == _get_all_namespaces.value
             acc == ScanClusterLoop(names, 1,
                        [latest_tag_containers |-> <<>>, root_containers |-> <<>>,
                         log |-> <<>>])
         IN [response |-> Return(ScanResponse(acc.latest_tag_containers,
                                     acc.root_containers,
                                     Summary(names, acc.latest_tag_containers,
                                             acc.root_containers))),
             log |-> acc.log]

\* Lines 208-231: the HTTPException the handler raises for exception e.
ErrorAnswer(e) ==
    LET words == Message(e)
    IN IF "permission denied" \in words \/ "forbidden" \in words
       THEN [status_code |-> 403, detail |-> "Insufficient permissions to scan cluster"]
       ELSE IF "unauthorized" \in words
       THEN [status_code |-> 401, detail |-> "Authentication failed"]
       ELSE IF "connection" \in words \/ "timeout" \in words
       THEN [status_code |-> 503, detail |-> "Cluster connectivity error"]
       ELSE [status_code |-> 500, detail |-> "Internal scan error"]

\* An answer of the endpoint, with what the handler saw: whether the
\* manager was initialized, whether the scan was started, and the exception
\* it caught, if any.
Answer(status_code, detail, initialized, scanned, cause) ==
    [status_code |-> status_code, detail |-> detail, initialized |-> initialized,
     scanned |-> scanned, cause |-> cause]

\* Lines 175-231: GET /scan.  The HTTPException of line 187 is raised
\* inside the try block, and the handler of line 208 catches it as it
\* catches what the scan raises.
ScanRequest ==
    /\ manager_pc = "idle"
    /\ Len(http) < MaxRequests
    /\ IF ~is_initialized
       THEN /\ http' = Append(http,
                      Answer(ErrorAnswer(NotInitialized).status_code,
                             ErrorAnswer(NotInitialized).detail,
                             FALSE, FALSE, Some(NotInitialized)))
            /\ UNCHANGED <<responses, log>>
       ELSE LET r == scan_cluster
            IN /\ responses' = Append(responses, r.response)
               /\ log' = log \o r.log
               /\ http' = Append(http,
                      IF Raised(r.response)
                      THEN Answer(ErrorAnswer(Val(r.response.exc)).status_code,
                                  ErrorAnswer(Val(r.response.exc)).detail,
                                  TRUE, TRUE, r.response.exc)
                      ELSE Answer(200, "", TRUE, TRUE, None))
    /\ UNCHANGED <<cluster, api, pc, namespaces, idx, latest_tag_containers,
                   root_containers, image, latest_issue, call, returned,
                   _client, _initialized, manager_pc, manager_log>>

\* The application after construction: a cluster whose namespaces list or
\* fail to list, the failure's message holding at most one keyword beyond
\* those of its kind; the manager as __init__ leaves it.
InitApp ==
    /\ \/ /\ cluster \in {<<>>,
                           <<[name |-> "default",
                              pods |-> <<Pod("p1", Some(PodSpecAt(1)))>>,
                              service_accounts |-> <<>>, network_policies |-> <<>>]>>}
          /\ api = [list_namespace |-> "ok",
                    namespaced |-> [i \in DOMAIN cluster |-> AllOk], text |-> {}]
       \/ /\ cluster = <<>>
          /\ \E st \in Statuses \ {"ok"} :
                \E text \in {{}} \cup {{k} : k \in Keywords} :
                    api = [list_namespace |-> st, namespaced |-> <<>>, text |-> text]
    /\ pc = "idle"
    /\ NoScanFrame
    /\ log = <<>>
    /\ responses = <<>>
    /\ TagIdle
    /\ EvalIdle
    /\ AppIdle

NextApp ==
    \/ InitializeStart
    \/ InitializeFinish
    \/ Close
    \/ Reinitialize
    \/ ScanRequest

SpecApp == InitApp /\ [][NextApp]_vars

----------------------------------------------------------------------------
(* What the claims speak of, stated from the cluster and not from the walk *)

SeqToSet(seq) == {seq[i] : i \in DOMAIN seq}

\* The reports the finished scan_cluster calls returned.
Reports ==
    {responses[k].value : k \in {j \in DOMAIN responses : ~Raised(responses[j])}}

\* The walk of namespace i completes: its pods can be listed and every
\* listed pod has a spec.
WalkCompletes(i) ==
    /\ api.namespaced[i].list_namespaced_pod = "ok"
    /\ \A j \in DOMAIN cluster[i].pods : Truthy(cluster[i].pods[j].spec)

\* The walk of namespace i is interrupted by an unexpected error: the pods
\* are listed and one of them has no spec.
WalkInterrupted(i) ==
    /\ api.namespaced[i].list_namespaced_pod = "ok"
    /\ \E j \in DOMAIN cluster[i].pods : IsNone(cluster[i].pods[j].spec)

\* The optional issue, when present, is an entry of entries.
IssueIn(entries, issue) ==
    Truthy(issue) => \E n \in DOMAIN entries : entries[n] = Val(issue)

\* The latest-tag and root-user violations of one container are in report r;
\* prefix is <<"init-">> for an init container.
ContainerIssuesIn(r, namespace, pod, prefix, container) ==
    /\ IssueIn(r.latestTagContainers,
               _check_latest_tag(namespace, pod.name, prefix \o container.name,
                                 container.image))
    /\ IssueIn(r.rootContainers,
               _check_root_user(namespace, pod.name, prefix \o container.name,
                                container.security_context,
                                Val(pod.spec).security_context))

\* The same for the CIS violations of one container.
ContainerCisIn(r, namespace, pod, prefix, container) ==
    SeqToSet(check_cis_compliance(namespace, pod.name, prefix \o container.name,
                                  container, Val(pod.spec)))
        \subseteq SeqToSet(r.cisViolations)

\* The violations of the pods of namespace i listed before position limit
\* are in report r.
IssuesBeforeIn(r, i, limit) ==
    \A j \in DOMAIN cluster[i].pods :
        (j < limit /\ Truthy(cluster[i].pods[j].spec)) =>
            LET pod == cluster[i].pods[j]
            IN /\ \A m \in DOMAIN Val(pod.spec).containers :
                     ContainerIssuesIn(r, cluster[i].name, pod, <<>>,
                                       Val(pod.spec).containers[m])
               /\ \A m \in DOMAIN Val(pod.spec).init_containers :
                     ContainerIssuesIn(r, cluster[i].name, pod, <<"init-">>,
                                       Val(pod.spec).init_containers[m])

\* The violations of all pods of namespace i are in report r.
NamespaceIssuesIn(r, i) == IssuesBeforeIn(r, i, Len(cluster[i].pods) + 1)

\* The CIS violations of all containers of namespace i are in report r.
NamespaceCisIn(r, i) ==
    \A j \in DOMAIN cluster[i].pods :
        LET pod == cluster[i].pods[j]
        IN /\ \A m \in DOMAIN Val(pod.spec).containers :
                 ContainerCisIn(r, cluster[i].name, pod, <<>>,
                                Val(pod.spec).containers[m])
           /\ \A m \in DOMAIN Val(pod.spec).init_containers :
                 ContainerCisIn(r, cluster[i].name, pod, <<"init-">>,
                                Val(pod.spec).init_containers[m])

\* The position of the first pod of namespace i that has no spec.
FirstPodWithoutSpec(i) ==
    CHOOSE j \in DOMAIN cluster[i].pods :
        /\ IsNone(cluster[i].pods[j].spec)
        /\ \A m \in 1..(j - 1) : Truthy(cluster[i].pods[m].spec)

----------------------------------------------------------------------------
(* Claims about scan_cluster *)

\* C1: for every namespace whose walk completes, every violation the
\* per-container CIS evaluators yield on its containers, and every violation
\* the two per-namespace evaluators yield for it, is in the returned report.
C1_EvaluatorViolationsReported ==
    \A r \in Reports : \A i \in DOMAIN cluster :
        WalkCompletes(i) =>
            /\ NamespaceCisIn(r, i)
            /\ SeqToSet(check_network_policies(cluster[i].name).value)
                   \subseteq SeqToSet(r.networkPolicyViolations)
            /\ SeqToSet(check_service_accounts(cluster[i].name).value)
                   \subseteq SeqToSet(r.serviceAccountViolations)

\* When some namespace's walk fails, every response is still a report, and
\* it holds every violation of every namespace whose walk completes.
ReportsHoldWalkedNamespaces ==
    \A k \in DOMAIN responses :
        (api.list_namespace = "ok" /\ \E i \in DOMAIN cluster : ~WalkCompletes(i))
        => /\ ~Raised(responses[k])
           /\ \A i \in DOMAIN cluster :
                 WalkCompletes(i) => NamespaceIssuesIn(responses[k].value, i)

\* A step taken inside the loop goes on to the next namespace and does not
\* end the call.
LoopGoesOn ==
    (pc = "loop" /\ idx <= Len(namespaces)) =>
        (pc' = "loop" /\ idx' = idx + 1 /\ responses' = responses)

\* C2: a namespace whose walk fails never aborts the scan: the loop goes on
\* with the remaining namespaces, the call returns a report, and the report
\* holds every violation of every namespace whose walk completes.
C2_NamespaceFailureIsolated ==
    []ReportsHoldWalkedNamespaces /\ [][LoopGoesOn]_vars

\* A report was returned although an earlier namespace's walk failed, and it
\* holds violations of a later namespace.
C2_Witness ==
    \E r \in Reports : \E i, j \in DOMAIN cluster :
        /\ i < j
        /\ ~WalkCompletes(i)
        /\ WalkCompletes(j)
        /\ NamespaceIssuesIn(r, j)
        /\ \E n \in DOMAIN r.latestTagContainers :
              r.latestTagContainers[n].namespace = cluster[j].name

\* C3: a scan_cluster call raises if and only if listing the namespaces fails.
C3_RaisesIffListingFails ==
    \A k \in DOMAIN responses :
        Raised(responses[k]) <=> api.list_namespace /= "ok"

\* A call raised against a cluster that has namespaces, and what it raised
\* is a permission-denied answer of the listing.
C3_Witness ==
    /\ Len(cluster) > 0
    /\ \E k \in DOMAIN responses :
          Raised(responses[k]) /\ Val(responses[k].exc) = ApiException("403")

\* C4: the summary's total issue count is the sum of the sizes of the five
\* violation collections of the same report.
C4_TotalIsSumOfCollections ==
    \A r \in Reports :
        r.summary.totalIssues =
            Len(r.latestTagContainers) + Len(r.rootContainers)
            + Len(r.cisViolations) + Len(r.networkPolicyViolations)
            + Len(r.serviceAccountViolations)

\* A report with latest-tag and root-user violations.
C4_Witness ==
    \E r \in Reports :
        /\ Len(r.latestTagContainers) > 0
        /\ Len(r.rootContainers) > 0
        /\ r.summary.totalIssues > Len(r.latestTagContainers)

\* C5: the summary's count of namespaces scanned is the number of
\* namespaces whose walk completed.
C5_NamespacesScannedCountsCompletedWalks ==
    \A r \in Reports :
        r.summary.namespacesScanned =
            Cardinality({i \in DOMAIN cluster : WalkCompletes(i)})

\* C6: when an unexpected error interrupts a namespace's walk, the
\* violations of the pods walked before the error are in the report.
C6_PartialResultsReported ==
    \A r \in Reports : \A i \in DOMAIN cluster :
        WalkInterrupted(i) => IssuesBeforeIn(r, i, FirstPodWithoutSpec(i))

\* Where the walk discovers the container an entry names: the positions of
\* its namespace, of its pod, 0 for a regular and 1 for an init container,
\* and its position in that container list.
DiscoveryRank(entry) ==
    LET i == NsIndex(entry.namespace)
        pods == cluster[i].pods
        j == CHOOSE m \in DOMAIN pods : pods[m].name = entry.pod
        spec == Val(pods[j].spec)
        isRegular == \E m \in DOMAIN spec.containers :
                        spec.containers[m].name = entry.container
    IN IF isRegular
       THEN <<i, j, 0, CHOOSE m \in DOMAIN spec.containers :
                          spec.containers[m].name = entry.container>>
       ELSE <<i, j, 1, CHOOSE m \in DOMAIN spec.init_containers :
                          <<"init-">> \o spec.init_containers[m].name
                              = entry.container>>

\* Lexicographic order of two ranks.
RankBefore(a, b) ==
    \E n \in 1..4 : a[n] < b[n] /\ \A m \in 1..(n - 1) : a[m] = b[m]

InDiscoveryOrder(entries) ==
    \A a, b \in DOMAIN entries :
        a < b => RankBefore(DiscoveryRank(entries[a]), DiscoveryRank(entries[b]))

\* C7: each violation collection of a report is in discovery order:
\* namespace listing order, then pod listing order, then the regular
\* containers in their order before the init containers in theirs.
C7_CollectionsInDiscoveryOrder ==
    \A r \in Reports :
        /\ InDiscoveryOrder(r.latestTagContainers)
        /\ InDiscoveryOrder(r.rootContainers)
        /\ InDiscoveryOrder(r.cisViolations)

\* A report whose latest-tag collection holds a regular and an init
\* container of the same pod, and entries of two pods and of two namespaces.
C7_Witness ==
    \E r \in Reports : \E a, b, c, d \in DOMAIN r.latestTagContainers :
        LET e == r.latestTagContainers
        IN /\ e[a].namespace = e[b].namespace
           /\ e[a].pod = e[b].pod
           /\ DiscoveryRank(e[a])[3] = 0
           /\ DiscoveryRank(e[b])[3] = 1
           /\ e[c].namespace = e[a].namespace
           /\ e[c].pod /= e[a].pod
           /\ e[d].namespace /= e[a].namespace
           /\ Len(r.rootContainers) > 1

\* Two responses agree: both raised, or both are reports with the same
\* violation sets and the same summary counts.
SameOutcome(x, y) ==
    /\ Raised(x) <=> Raised(y)
    /\ ~Raised(x) =>
          /\ SeqToSet(x.value.latestTagContainers) = SeqToSet(y.value.latestTagContainers)
          /\ SeqToSet(x.value.rootContainers) = SeqToSet(y.value.rootContainers)
          /\ SeqToSet(x.value.cisViolations) = SeqToSet(y.value.cisViolations)
          /\ SeqToSet(x.value.networkPolicyViolations)
                 = SeqToSet(y.value.networkPolicyViolations)
          /\ SeqToSet(x.value.serviceAccountViolations)
                 = SeqToSet(y.value.serviceAccountViolations)
          /\ x.value.summary = y.value.summary

\* C8: consecutive scan_cluster calls against the unchanged cluster, with
\* the same list-call outcomes, return reports with identical violation
\* sets and identical summary counts.
C8_ConsecutiveScansAgree ==
    \A j, k \in DOMAIN responses : SameOutcome(responses[j], responses[k])

\* Two scans have returned reports that hold violations.
C8_Witness ==
    /\ Len(responses) >= 2
    /\ ~Raised(responses[1])
    /\ ~Raised(responses[2])
    /\ responses[2].value.summary.totalIssues > 0

\* C9: no step of a scan changes the cluster's objects.
C9_ScanLeavesClusterUnchanged == [][cluster' = cluster]_vars

\* A scan that walked a namespace with pods has finished, and so has one
\* that met a namespace it could not walk.
C9_Witness ==
    /\ Len(responses) > 0
    /\ \E i \in DOMAIN cluster : WalkCompletes(i) /\ Len(cluster[i].pods) > 0
    /\ \E i \in DOMAIN cluster : api.namespaced[i].list_namespaced_pod = "500"

----------------------------------------------------------------------------
(* Claims about _check_latest_tag *)

\* The image reference has a colon after its last slash: it carries a tag.
ColonAfterLastSlash(img) ==
    \E i \in 1..Len(img) :
        img[i] = ":" /\ \A j \in (i + 1)..Len(img) : img[j] /= "/"

\* C10: a non-empty image reference is flagged if and only if it ends with
\* ":latest" or has no colon after its last slash.
C10_FlaggedIffLatestOrUntagged ==
    (pc = "checked" /\ Truthy(image)) =>
        (Truthy(latest_issue) <=>
            (EndsWith(image, LatestSuffix) \/ ~ColonAfterLastSlash(image)))

\* C11: every LatestTagContainer _check_latest_tag returns reports an image
\* that ends with ":latest" and carries exactly one tag: the reference
\* itself when it already ended with ":latest", and otherwise the reference,
\* which then carries no tag, with ":latest" appended.
C11_ReportedImageCarriesOneTag ==
    (pc = "checked" /\ Truthy(latest_issue)) =>
        /\ EndsWith(Val(latest_issue).image, LatestSuffix)
        /\ IF EndsWith(image, LatestSuffix)
              THEN Val(latest_issue).image = image
              ELSE /\ ~ColonAfterLastSlash(image)
                   /\ Val(latest_issue).image = image \o LatestSuffix

----------------------------------------------------------------------------
(* Claims about _check_root_user *)

\* _check_root_user has returned from the call.
RootUserReturned ==
    /\ pc = "returned"
    /\ Truthy(call)
    /\ Val(call).fn = "_check_root_user"

\* The security context ctx sets attribute f (it is there and not None).
Sets(ctx, f) == Truthy(ctx) /\ IsSet(Val(ctx), f)

\* The resolved value of attribute f: the container-level value if present,
\* otherwise the pod-level value, None when neither level sets it.
ResolvedSetting(csc, psc, f) ==
    IF Sets(csc, f) THEN Val(csc)[f]
    ELSE IF Sets(psc, f) THEN Val(psc)[f]
    ELSE None

\* C12: when the container security context sets runAsUser to a non-zero
\* value, _check_root_user returns no violation, whatever the pod security
\* context holds.
C12_ContainerNonZeroUserPasses ==
    (/\ RootUserReturned
     /\ Sets(Val(call).csc, "run_as_user")
     /\ Val(Val(Val(call).csc).run_as_user) /= 0)
        => returned = None

\* The call has returned for a container with a non-zero runAsUser in a pod
\* with runAsUser 0 and runAsNonRoot false.
C12_Witness ==
    /\ RootUserReturned
    /\ Sets(Val(call).csc, "run_as_user")
    /\ Val(Val(Val(call).csc).run_as_user) /= 0
    /\ Val(call).psc = Some([run_as_user |-> Some(0), run_as_non_root |-> Some(FALSE)])

\* C13: when the resolved runAsUser is present and non-zero,
\* _check_root_user returns no violation, whatever runAsNonRoot is at either
\* level.
C13_ResolvedNonZeroUserPasses ==
    LET run_as_user == ResolvedSetting(Val(call).csc, Val(call).psc, "run_as_user")
    IN (RootUserReturned /\ Truthy(run_as_user) /\ Val(run_as_user) /= 0)
           => returned = None

\* The reasons that name runAsNonRoot=false.
NonRootFalseReasons == {"Container runAsNonRoot=false", "Pod runAsNonRoot=false"}

\* C14: when runAsUser is absent at both levels, _check_root_user returns a
\* violation with a runAsNonRoot=false reason if and only if the resolved
\* runAsNonRoot is false.
C14_ResolvedNonRootDecides ==
    (/\ RootUserReturned
     /\ IsNone(ResolvedSetting(Val(call).csc, Val(call).psc, "run_as_user")))
        => ((Truthy(returned) /\ Val(returned).reason \in NonRootFalseReasons)
               <=> ResolvedSetting(Val(call).csc, Val(call).psc, "run_as_non_root")
                       = Some(FALSE))

\* Both security contexts of the call are absent.
NoContextAtAll == IsNone(Val(call).csc) /\ IsNone(Val(call).psc)

----------------------------------------------------------------------------
(* Claims about the container locators of the namespace walk *)

\* Pod names are unique within each namespace, and container names are
\* unique among the regular and init containers of each pod.
NamesUnique ==
    \A i \in DOMAIN cluster :
        LET pods == cluster[i].pods
        IN /\ \A j, k \in DOMAIN pods : pods[j].name = pods[k].name => j = k
           /\ \A j \in DOMAIN pods :
                 Truthy(pods[j].spec) =>
                     LET all == Val(pods[j].spec).containers
                                    \o Val(pods[j].spec).init_containers
                     IN \A m, n \in DOMAIN all : all[m].name = all[n].name => m = n

\* C16: in any report of a cluster in which pod names are unique within a
\* namespace and container names are unique within a pod, no two entries of
\* rootContainers carry the same (namespace, pod, container) locator.
C16_RootLocatorsDistinct ==
    NamesUnique =>
        \A r \in Reports :
            \A m, n \in DOMAIN r.rootContainers :
                (/\ r.rootContainers[m].namespace = r.rootContainers[n].namespace
                 /\ r.rootContainers[m].pod = r.rootContainers[n].pod
                 /\ r.rootContainers[m].container = r.rootContainers[n].container)
                    => m = n

\* The locators under which the walk is to report the containers of spec
\* that the evaluator flags: the name of a regular container, "init-"
\* followed by the name of an init container.
LatestLocators(spec) ==
    {spec.containers[m].name : m \in
        {n \in DOMAIN spec.containers :
            Truthy(_check_latest_tag("", "", <<>>, spec.containers[n].image))}}
    \cup
    {<<"init-">> \o spec.init_containers[m].name : m \in
        {n \in DOMAIN spec.init_containers :
            Truthy(_check_latest_tag("", "", <<>>, spec.init_containers[n].image))}}

RootLocators(spec) ==
    {spec.containers[m].name : m \in
        {n \in DOMAIN spec.containers :
            Truthy(_check_root_user("", "", <<>>,
                       spec.containers[n].security_context, spec.security_context))}}
    \cup
    {<<"init-">> \o spec.init_containers[m].name : m \in
        {n \in DOMAIN spec.init_containers :
            Truthy(_check_root_user("", "", <<>>,
                       spec.init_containers[n].security_context, spec.security_context))}}

\* The container locators of the entries for pod pod_name of namespace.
LocatorsIn(entries, namespace, pod_name) ==
    {entries[m].container : m \in
        {n \in DOMAIN entries :
            entries[n].namespace = namespace /\ entries[n].pod = pod_name}}

\* C17: in any report, the violations of a walked pod carry as container
\* locator the name of the regular container they were found on, unchanged,
\* or "init-" followed by the name of the init container they were found on.
C17_InitLocatorsPrefixed ==
    \A r \in Reports :
        \A i \in DOMAIN cluster :
            WalkCompletes(i) =>
                \A j \in DOMAIN cluster[i].pods :
                    LET pod == cluster[i].pods[j]
                    IN /\ LocatorsIn(r.latestTagContainers, cluster[i].name, pod.name)
                              = LatestLocators(Val(pod.spec))
                       /\ LocatorsIn(r.rootContainers, cluster[i].name, pod.name)
                              = RootLocators(Val(pod.spec))

\* A report was returned for a pod with a flagged regular container and a
\* flagged init container.
C17_Witness ==
    /\ Reports /= {}
    /\ \E i \in DOMAIN cluster :
          /\ WalkCompletes(i)
          /\ \E j \in DOMAIN cluster[i].pods :
                LET spec == Val(cluster[i].pods[j].spec)
                IN /\ \E m \in DOMAIN spec.containers :
                         spec.containers[m].name \in RootLocators(spec)
                   /\ \E m \in DOMAIN spec.init_containers :
                         <<"init-">> \o spec.init_containers[m].name
                             \in LatestLocators(spec)

----------------------------------------------------------------------------
(* Claims about the CIS evaluators of a container *)

\* Evaluator fn has returned from the call.
Returned(fn) ==
    /\ pc = "returned"
    /\ Truthy(call)
    /\ Val(call).fn = fn

\* violations is exactly one violation, of this control, severity and level.
OneViolation(violations, control_id, severity, level) ==
    /\ Len(violations) = 1
    /\ violations[1].control_id = control_id
    /\ violations[1].severity = severity
    /\ violations[1].level = level

\* C18: _check_privileged_containers returns exactly one violation (5.2.1,
\* Critical, L1) when the container's own security context has privileged
\* true, and none otherwise, whatever the pod security context holds.
C18_PrivilegedIffContainerFlag ==
    Returned("_check_privileged_containers") =>
        IF /\ Sets(Val(call).csc, "privileged")
           /\ Val(Val(call).csc).privileged = Some(TRUE)
        THEN OneViolation(returned, "5.2.1", "Critical", "L1")
        ELSE returned = <<>>

\* The call has returned for a container that does not set privileged in a
\* pod whose security context holds privileged true.
C18_Witness ==
    /\ Returned("_check_privileged_containers")
    /\ ~Sets(Val(call).csc, "privileged")
    /\ Sets(Val(call).psc, "privileged")
    /\ Val(Val(call).psc).privileged = Some(TRUE)

\* C19: _check_privilege_escalation returns exactly one violation (High, L1)
\* if the resolved allowPrivilegeEscalation (container-level if set,
\* otherwise pod-level) is absent or true, and none otherwise.
C19_EscalationIffAbsentOrTrue ==
    Returned("_check_privilege_escalation") =>
        LET resolved == ResolvedSetting(Val(call).csc, Val(call).psc,
                                        "allow_privilege_escalation")
        IN IF IsNone(resolved) \/ resolved = Some(TRUE)
           THEN OneViolation(returned, "5.2.5", "High", "L1")
           ELSE returned = <<>>

\* The call has returned for a container that sets allowPrivilegeEscalation
\* false in a pod that sets it true.
C19_Witness ==
    /\ Returned("_check_privilege_escalation")
    /\ Val(call).csc = Some([allow_privilege_escalation |-> Some(FALSE)])
    /\ Val(call).psc = Some([allow_privilege_escalation |-> Some(TRUE)])

\* The drop list of the optional capabilities object, empty when the object
\* or its drop list is absent.
DropOf(capabilities) ==
    IF Truthy(capabilities) /\ HasAttr(Val(capabilities), "drop")
    THEN Val(capabilities).drop
    ELSE <<>>

\* C20: on the resolved capabilities (container-level if present, otherwise
\* pod-level), _check_capabilities_not_dropped returns no violation when the
\* drop list contains "ALL", exactly one Low/L2 violation when it is
\* non-empty without "ALL", and exactly one Medium/L1 violation when the
\* capabilities or the drop list are absent or empty.
C20_CapabilitiesDropDecides ==
    Returned("_check_capabilities_not_dropped") =>
        LET drop == DropOf(ResolvedSetting(Val(call).csc, Val(call).psc,
                                           "capabilities"))
        IN IF "ALL" \in SeqToSet(drop) THEN returned = <<>>
           ELSE IF drop /= <<>> THEN OneViolation(returned, "5.2.9", "Low", "L2")
           ELSE OneViolation(returned, "5.2.9", "Medium", "L1")

\* The call has returned for a container whose capabilities drop something
\* other than "ALL" in a pod whose capabilities drop "ALL".
C20_Witness ==
    /\ Returned("_check_capabilities_not_dropped")
    /\ Sets(Val(call).csc, "capabilities")
    /\ DropOf(Val(Val(call).csc).capabilities) = <<"NET_RAW">>
    /\ Sets(Val(call).psc, "capabilities")
    /\ DropOf(Val(Val(call).psc).capabilities) = <<"ALL">>

----------------------------------------------------------------------------
(* Claims about check_cis_compliance *)

ControlIds ==
    {"5.1.4", "5.2.1", "5.2.2", "5.2.3", "5.2.4", "5.2.5", "5.2.7", "5.2.8",
     "5.2.9", "5.7.2", "5.7.3", "5.7.4"}

\* The positions of the violations of control_id in violations.
OfControl(violations, control_id) ==
    {i \in DOMAIN violations : violations[i].control_id = control_id}

\* The positions of the secret-backed volumes of the call's pod.
SecretVolumes ==
    {i \in DOMAIN Val(call).volumes :
        HasAttr(Val(call).volumes[i], "secret") /\ Truthy(Val(call).volumes[i].secret)}

----------------------------------------------------------------------------
(* Claims about the operations on one namespace *)

\* How the list calls of the namespace of the call answer.
CallStatuses == api.namespaced[NsIndex(Val(call).namespace)]

\* What the namespace of the call holds.
CallNamespace == cluster[NsIndex(Val(call).namespace)]

\* C22: when the list-service-accounts call of a namespace fails with 403,
\* check_service_accounts returns zero violations and raises nothing.
C22_ForbiddenAccountsGiveNoViolation ==
    (/\ Returned("check_service_accounts")
     /\ CallStatuses.list_namespaced_service_account = "403")
        => returned = Return(<<>>)

\* check_service_accounts has returned for a namespace whose service
\* accounts cannot be listed for lack of permission, and which holds an
\* account that mounts its token.
C22_Witness ==
    /\ Returned("check_service_accounts")
    /\ CallStatuses.list_namespaced_service_account = "403"
    /\ \E i \in DOMAIN CallNamespace.service_accounts :
          ~HasAttr(CallNamespace.service_accounts[i], "automount_service_account_token")

\* C23: a failure of list-pods or of list-service-accounts that is not
\* permission-denied is raised to the caller of _scan_namespace, or of
\* check_service_accounts, and a permission-denied failure of
\* list-service-accounts is not.
C23_OtherListFailuresPropagate ==
    /\ (/\ Returned("_scan_namespace")
         /\ CallStatuses.list_namespaced_pod \notin {"ok", "403"})
            => returned.exc = list_namespaced_pod(Val(call).namespace).exc
    /\ (/\ Returned("check_service_accounts")
         /\ CallStatuses.list_namespaced_service_account \notin {"ok", "403"})
            => returned.exc
                   = list_namespaced_service_account(Val(call).namespace).exc
    /\ (/\ Returned("check_service_accounts")
         /\ CallStatuses.list_namespaced_service_account = "403")
            => ~Raised(returned)

\* C24: check_network_policies returns exactly one Medium violation for the
\* namespace if and only if the list-network-policies call succeeds with
\* zero policies; with a policy, or with a 403, it returns no violation.
C24_NetworkPolicyViolationIffNone ==
    Returned("check_network_policies") =>
        LET status == CallStatuses.list_namespaced_network_policy
            policies == CallNamespace.network_policies
            one == /\ ~Raised(returned)
                   /\ Len(returned.value) = 1
                   /\ returned.value[1].namespace = Val(call).namespace
                   /\ returned.value[1].severity = "Medium"
        IN /\ one <=> (status = "ok" /\ policies = <<>>)
           /\ (status = "403" \/ (status = "ok" /\ policies /= <<>>))
                  => returned = Return(<<>>)

\* check_network_policies has returned for a namespace without policies
\* whose policies cannot be listed for lack of permission.
C24_Witness ==
    /\ Returned("check_network_policies")
    /\ CallStatuses.list_namespaced_network_policy = "403"
    /\ CallNamespace.network_policies = <<>>

\* The account mounts its token: automountServiceAccountToken is absent or
\* true.
MountsToken(account) ==
    \/ ~HasAttr(account, "automount_service_account_token")
    \/ account.automount_service_account_token \in {None, Some(TRUE)}

\* C25: when list-service-accounts succeeds, check_service_accounts returns
\* exactly one Medium violation for each account whose
\* automountServiceAccountToken is absent or true and none for the others,
\* in listing order, each naming the account and the namespace.
C25_ViolationPerMountingAccount ==
    (/\ Returned("check_service_accounts")
     /\ CallStatuses.list_namespaced_service_account = "ok")
        => LET mounting == SelectSeq(CallNamespace.service_accounts, MountsToken)
           IN /\ ~Raised(returned)
              /\ Len(returned.value) = Len(mounting)
              /\ \A i \in DOMAIN mounting :
                    /\ returned.value[i].service_account = mounting[i].name
                    /\ returned.value[i].namespace = Val(call).namespace
                    /\ returned.value[i].severity = "Medium"

\* check_service_accounts has returned for a listed namespace with an
\* account that does not mount its token before one whose setting is unset.
C25_Witness ==
    /\ Returned("check_service_accounts")
    /\ CallStatuses.list_namespaced_service_account = "ok"
    /\ Len(CallNamespace.service_accounts) = 2
    /\ ~MountsToken(CallNamespace.service_accounts[1])
    /\ HasAttr(CallNamespace.service_accounts[2], "automount_service_account_token")
    /\ CallNamespace.service_accounts[2].automount_service_account_token = None

----------------------------------------------------------------------------
(* The /scan endpoint and the client manager *)

\* The answers the endpoint gave to requests whose scan failed fatally.
FatalAnswers == {i \in DOMAIN http : http[i].scanned /\ Truthy(http[i].cause)}

\* The status the kind of failure e calls for: authentication 401,
\* permission 403, connectivity or timeout 503, any other 500.
StatusOfKind(e) ==
    CASE e.type = "ApiException" /\ e.status = "401" -> 401
      [] e.type = "ApiException" /\ e.status = "403" -> 403
      [] e.type = "ConnectionError" -> 503
      [] OTHER -> 500

\* C26: when scan_cluster fails fatally the endpoint answers with the status
\* of the failure's kind (401 for an authentication failure, 403 for a
\* permission failure, 503 for a connectivity or timeout failure, 500 for
\* any other), never with the status of another kind.
C26_StatusFollowsFailureKind ==
    \A i \in FatalAnswers : http[i].status_code = StatusOfKind(Val(http[i].cause))

\* C27: a request served while the manager is not initialized is answered
\* 503 "Kubernetes client not initialized. Check cluster connectivity." and
\* starts no scan.
C27_NotInitializedAnswers503 ==
    \A i \in DOMAIN http :
        ~http[i].initialized =>
            /\ http[i].status_code = 503
            /\ http[i].detail = "Kubernetes client not initialized. Check cluster connectivity."
            /\ ~http[i].scanned

\* The calls of the manager that have completed, oldest first: what each
\* initialize came to, and each close.
Completed ==
    SelectSeq(manager_log, LAMBDA e : e \in {"config_failed", "test_passed", "test_failed", "closed"})

\* The most recent initialize completed successfully and no close followed.
LastInitializeSucceeded ==
    /\ Completed # <<>>
    /\ Completed[Len(Completed)] = "test_passed"

\* The outcome of the connectivity test of client n: the entry that follows
\* the creation of client n in the log.
TestOf(n) ==
    LET created == {i \in DOMAIN manager_log :
                       /\ manager_log[i] = "client_created"
                       /\ Cardinality({j \in 1..i : manager_log[j] = "client_created"}) = n}
        i == CHOOSE i \in created : TRUE
    IN IF created = {} \/ i = Len(manager_log) THEN "none" ELSE manager_log[i + 1]

\* C28: between the calls of the manager, is_initialized() is true only if
\* a client is held and the most recent initialize succeeded with no close
\* since; get_client returns the held client exactly when is_initialized()
\* is true and raises otherwise, and the client it returns passed its
\* connectivity test.
C28_InitializedMeansTestedClient ==
    manager_pc = "idle" =>
        /\ is_initialized => ~IsNone(_client) /\ LastInitializeSucceeded
        /\ is_initialized => get_client = Return(Val(_client))
        /\ ~is_initialized => Raised(get_client)
        /\ ~Raised(get_client) => TestOf(get_client.value) = "test_passed"

\* Witness: a client is held whose connectivity test failed, after an
\* earlier initialize had succeeded.
C28_Witness ==
    /\ manager_pc = "idle"
    /\ ~IsNone(_client)
    /\ TestOf(Val(_client)) = "test_failed"
    /\ \E i \in DOMAIN manager_log : manager_log[i] = "test_passed"
    /\ Raised(get_client)

====
